---- MODULE Spec2Model ----
(***************************************************************************)
(* Startup Business Guide API (Carey99/interactive_QA, src/server).        *)
(*                                                                         *)
(* One process runs one of the four entry points of the repository:        *)
(*   "main"   main.py        FastAPI + LLMService (groq SDK), lifespan     *)
(*   "http"   main_http.py   FastAPI + LLMServiceHTTP (httpx), lifespan    *)
(*   "vercel" vercel_app.py  FastAPI + LLMService, lazy get_llm_service    *)
(*   "raw"    api/index.py   BaseHTTPRequestHandler + call_groq_api        *)
(* A step of the model is one lifespan event or one handled request.  The  *)
(* provider (Groq) is the environment: its reply to a call is an input.    *)
(*                                                                         *)
(* Three specifications share the state:                                   *)
(*   Spec       one request handled per step (Init, Next)                  *)
(*   RelaySpec  requests in flight together, one step per run of a         *)
(*              coroutine between two awaits (RelayInit, RelayNext);       *)
(*              RelayFairSpec adds the timeouts the clients are given      *)
(*   TextSpec   the text heuristics of LLMService applied to answer        *)
(*              texts (TextInit, TextNext)                                 *)
(*                                                                         *)
(* Units: durations are integer milliseconds; values the code rounds to    *)
(* two decimals (confidence, processing_time, averages) are integers in    *)
(* hundredths.  Durations and text lengths are chosen off rounding ties.   *)
(***************************************************************************)
EXTENDS Integers, FiniteSets, Sequences, TLC

VARIABLES
    app,                  \* the entry point this process runs
    keySet,               \* GROQ_API_KEY is present in the environment
    modelName,            \* settings.MODEL_NAME
    phase,                \* "created" | "serving" | "stopped" | "aborted"
    svcSet,               \* the global service instance is not None
    total_requests,       \* service._total_requests
    total_response_time,  \* service._total_response_time (ms)
    clientClosed,         \* LLMServiceHTTP.client was aclose()d
    req,                  \* the request handled by the last step
    resp,                 \* the response to it
    calls,                \* outbound provider calls made for it
    relayOk,              \* history: relay calls the service completed without raising
    userMessage,          \* the "user" message of the call made for it
    instances,            \* service instances constructed in this process
    inflight,             \* RelaySpec: the requests in flight
    content,              \* TextSpec: an answer text
    final_confidence,     \* TextSpec: _calculate_confidence of it
    sources               \* TextSpec: _extract_sources of it

vars == <<app, keySet, modelName, phase, svcSet, total_requests,
          total_response_time, clientClosed, req, resp, calls, relayOk,
          userMessage, instances, inflight, content, final_confidence, sources>>

\* the state of the process and of the request handled last
procVars == <<phase, clientClosed, req, resp, calls, relayOk, userMessage>>

\* the state RelaySpec adds
relayVars == <<inflight>>

\* the state TextSpec adds
textVars == <<content, final_confidence, sources>>

-----------------------------------------------------------------------------
(* Bounds of the model *)

\* requests counted by the service before the model stops issuing relays
MaxRequests == 2

\* requests in flight together in RelaySpec
MaxInflight == 3

\* substrings an answer text of TextSpec is put together from
MaxFeatures == 3

(* Program constants *)

\* QuestionRequest.question max_length
MAX_QUESTION_LEN == 2000

\* QuestionRequest.question min_length
MIN_QUESTION_LEN == 1

DefaultModel == "llama-3.1-8b-instant"

Variants == {"main", "http", "vercel", "raw"}

ModelNames == {DefaultModel, "mixtral-8x7b"}

-----------------------------------------------------------------------------
(* Inputs *)

\* A question is abstracted to what the code inspects of it: its length and
\* the number of its non-whitespace characters (strip() is empty iff 0).
Questions ==
    { [len |-> 0,    nonblank |-> 0],       \* ""
      [len |-> 3,    nonblank |-> 0],       \* "   "
      [len |-> 57,   nonblank |-> 48],      \* "What documents do I need to travel from Kenya to Ireland?"
      [len |-> 2001, nonblank |-> 1700] }   \* one character over max_length

\* context of the body: absent, the empty string, or a text
Contexts == {"none", "empty", "some"}

\* Answer texts a provider may return: length, stripped length, number of
\* LLMService quality indicators contained, and whether one of the
\* LLMServiceHTTP structure markers occurs.
Texts ==
    { [id |-> "fixed50",  len |-> 320,  striplen |-> 320,  nInd |-> 2, marker |-> FALSE],
      [id |-> "brief",    len |-> 4,    striplen |-> 4,    nInd |-> 0, marker |-> FALSE],
      [id |-> "detailed", len |-> 1500, striplen |-> 1498, nInd |-> 8, marker |-> TRUE] }

NoText == [id |-> "none", len |-> 0, striplen |-> 0, nInd |-> 0, marker |-> FALSE]

\* Wall-clock durations of a provider call, in ms (a stubbed provider
\* answers within a few ms, the real one within tens of ms or more).
Durations == {2, 40}

\* The provider's reply to one call.  out: "ok" is a 2xx status.
\* pay (for 2xx): "wellformed" | "no_choices" (choices is empty) |
\* "no_content" (message has no content key) | "null_content" (content is null).
Replies ==
    { [out |-> o, pay |-> "na", txt |-> NoText, dur |-> 0] :
          o \in {"non2xx", "network", "timeout"} }
    \cup { [out |-> "ok", pay |-> p, txt |-> NoText, dur |-> d] :
          p \in {"no_choices", "no_content", "null_content"}, d \in Durations }
    \cup { [out |-> "ok", pay |-> "wellformed", txt |-> t, dur |-> d] :
          t \in Texts, d \in Durations }

\* A call made without a credential is sent with an empty bearer token and
\* cannot be answered 2xx.
RepliesFor(key) == IF key THEN Replies ELSE {r \in Replies : r.out # "ok"}

\* Constructing the service instance returns (TRUE) or raises (FALSE)
InitOutcomes == {TRUE, FALSE}

NoReply == [out |-> "none", pay |-> "na", txt |-> NoText, dur |-> 0]

NoQuestion == [len |-> -1, nonblank |-> -1]

NoReq ==
    [endpoint |-> "none", body |-> "none", q |-> NoQuestion, ctx |-> "none",
     reply |-> NoReply]

NoResp ==
    [ status |-> 0, keys |-> {}, answer |-> "none", confidence |-> -1,
      processing_time |-> -1, model |-> "none", health |-> "none",
      llm |-> "none", total |-> -1, avg |-> -1, error |-> "none",
      detail |-> "none" ]

\* The requests of RelaySpec
Ids == 1 .. MaxInflight

\* A request of RelaySpec: where its coroutine stands ("idle": not received,
\* "calling": suspended in the await of the provider call, "answered": the
\* response was returned), the endpoint, the provider calls made for it,
\* the processing time measured, and how it ended ("ok" | "error").
Idle == [pc |-> "idle", kind |-> "none", ncalls |-> 0, dur |-> 0, result |-> "none"]

-----------------------------------------------------------------------------
(* Rounding *)

\* round(ms / 1000, 2), in hundredths of a second
Round2(ms) == (ms + 5) \div 10

\* round(total_ms / 1000 / n, 2), in hundredths of a second
RoundAvg(total_ms, n) == (2 * total_ms + 10 * n) \div (20 * n)

Min(a, b) == IF a <= b THEN a ELSE b

Max(a, b) == IF a >= b THEN a ELSE b

-----------------------------------------------------------------------------
(* models/requests.py, models/responses.py *)

\* QuestionRequest: FastAPI validates the body before the handler runs
QuestionRequest_valid(q) ==
    /\ q.len >= MIN_QUESTION_LEN
    /\ q.len <= MAX_QUESTION_LEN

QuestionResponse_required == {"answer", "confidence", "processing_time", "model_used"}

QuestionResponse_keys ==
    {"answer", "confidence", "processing_time", "model_used", "sources", "timestamp"}

\* QuestionResponse(**kwargs): kwargs are the names supplied; unknown names
\* are ignored, a missing required field or a violated bound raises.
QuestionResponse_valid(kwargs, confidence, processing_time) ==
    /\ QuestionResponse_required \subseteq kwargs
    /\ confidence >= 0
    /\ confidence <= 100
    /\ processing_time > 0

HealthResponse_required == {"status", "message", "llm_service_status", "version"}

HealthResponse_keys ==
    {"status", "message", "llm_service_status", "version", "timestamp"}

HealthResponse_valid(kwargs) == HealthResponse_required \subseteq kwargs

\* FastAPI's answer to a body that fails QuestionRequest validation
RequestValidationError ==
    [NoResp EXCEPT !.status = 422, !.keys = {"detail"}, !.error = "validation"]

-----------------------------------------------------------------------------
(* services/llm_service.py: LLMService (groq SDK) *)

\* (variant of _calculate_confidence that leaves out the clamp to 0.98)
LLMService_calculate_confidence_unclamped(txt) ==
    LET base    == 85000
        length  == IF txt.len * 100 <= 10000 THEN txt.len * 100 ELSE 10000
        quality == txt.nInd * 1000
    IN (base + length + quality + 500) \div 1000

\* _calculate_confidence: 0.85 + min(len/1000, 0.1) + 0.01 per indicator,
\* clamped to 0.98, rounded to two decimals.  Computed in units of 1e-5.
LLMService_calculate_confidence(txt) ==
    LET base    == 85000
        length  == Min(txt.len * 100, 10000)
        quality == txt.nInd * 1000
        final   == Min(base + length + quality, 98000)
    IN (final + 500) \div 1000

\* _calculate_confidence: the fixed list of quality indicators
quality_indicators ==
    {"required", "documents", "steps", "process",
     "regulations", "official", "website", "contact"}

\* _extract_sources: the fixed list of source patterns, in its order, each
\* with the lower-case form that is searched in content.lower()
source_patterns ==
    << [name |-> "Ministry",             lower |-> "ministry"],
       [name |-> "Department",           lower |-> "department"],
       [name |-> "Government",           lower |-> "government"],
       [name |-> "Official",             lower |-> "official"],
       [name |-> "Embassy",              lower |-> "embassy"],
       [name |-> "Consulate",            lower |-> "consulate"],
       [name |-> "Chamber of Commerce",  lower |-> "chamber of commerce"],
       [name |-> "Registration Service", lower |-> "registration service"],
       [name |-> "Tax Authority",        lower |-> "tax authority"],
       [name |-> "Immigration",          lower |-> "immigration"] >>

\* the keywords _extract_sources tests besides the patterns
source_keywords == {"visa", "travel", "business registration", "tax"}

\* Every substring the two heuristics search for in content.lower()
Substrings ==
    quality_indicators \cup {source_patterns[i].lower : i \in DOMAIN source_patterns}
        \cup source_keywords

\* A text that contains "tax authority" contains "tax"
Closure(has) == has \cup (IF "tax authority" \in has THEN {"tax"} ELSE {})

RECURSIVE SumLen(_)
SumLen(S) ==
    IF S = {} THEN 0
    ELSE LET x == CHOOSE y \in S : TRUE IN Len(x) + SumLen(S \ {x})

\* A length at which a text containing the substrings of has exists (they
\* are written one after the other; "tax" lies inside "tax authority")
MinLen(has) ==
    SumLen(IF "tax authority" \in has THEN has \ {"tax"} ELSE has)

\* len(content) of the answer texts of TextSpec
TextLens == {0, 4, 57, 99, 101, 320}

\* An answer text is abstracted to what the heuristics inspect of it: its
\* length, and which of the substrings occur in its lower-case form.
Contents ==
    { c \in { [len |-> l, has |-> Closure(F)] :
                 l \in TextLens,
                 F \in {G \in SUBSET Substrings : Cardinality(G) <= MaxFeatures} } :
          c.len >= MinLen(c.has) }

\* a detailed answer, which contains every quality indicator
DetailedContent ==
    [len |-> 1500, has |-> quality_indicators \cup {"visa", "embassy"}]

NoContent == [len |-> 0, has |-> {}]

\* content as _calculate_confidence reads it
TextOf(c) ==
    [ id |-> "content", len |-> c.len, striplen |-> c.len,
      nInd |-> Cardinality(c.has \cap quality_indicators), marker |-> FALSE ]

\* (variant of the return statement: "return sources[:5]")
SourcesResult_list_always(list) == [kind |-> "list", list |-> list]

\* the value returned by _extract_sources: None, or a list
SourcesResult(list) ==
    IF list = <<>> THEN [kind |-> "None", list |-> <<>>]
    ELSE [kind |-> "list", list |-> list]

NotExtracted == [kind |-> "pending", list |-> <<>>]

RECURSIVE MatchedPatterns(_, _)
MatchedPatterns(i, has) ==
    IF i > Len(source_patterns) THEN <<>>
    ELSE (IF source_patterns[i].lower \in has THEN <<source_patterns[i].name>> ELSE <<>>)
         \o MatchedPatterns(i + 1, has)

\* _extract_sources(content): the matched patterns in list order, then the
\* suggested sources of the keywords; sources[:5] if sources else None
LLMService_extract_sources(c) ==
    LET matched == MatchedPatterns(1, c.has)
        travel  == IF "visa" \in c.has \/ "travel" \in c.has
                   THEN <<"Immigration Service", "Embassy">> ELSE <<>>
        reg     == IF "business registration" \in c.has
                   THEN <<"Business Registration Service", "Chamber of Commerce">> ELSE <<>>
        tax     == IF "tax" \in c.has THEN <<"Tax Authority">> ELSE <<>>
        all     == matched \o travel \o reg \o tax
    IN SourcesResult(SubSeq(all, 1, Min(5, Len(all))))

\* What a service call did: whether it raised LLMServiceError, whether it
\* updated the metrics (and with what duration), and the dictionary returned.
ServiceResult(raised, counted, dur, data) ==
    [raised |-> raised, counted |-> counted, dur |-> dur, data |-> data]

NoData == [answer |-> "none", confidence |-> -1, time |-> -1, model |-> "none"]

\* _build_user_message(question, context): the parts of the request the
\* user message is made of, in their order.  "if context:" is false for an
\* absent and for an empty context.
LLMService_build_user_message(ctx) ==
    IF ctx = "some" THEN <<"context", "question">> ELSE <<"question">>

\* health_check: the user message of the probe call
LLMService_probe_message == <<"Respond with exactly: 'Health check successful'">>

\* generate_response: the provider call; then _update_metrics; then the
\* result dictionary is built from response.choices[0].message.content.
\* Every exception inside leaves as LLMServiceError.
LLMService_generate_response(rp, model) ==
    IF rp.out # "ok"
    THEN ServiceResult(TRUE, FALSE, 0, NoData)
    ELSE IF rp.pay # "wellformed"
    THEN ServiceResult(TRUE, TRUE, rp.dur, NoData)
    ELSE ServiceResult(FALSE, TRUE, rp.dur,
            [ answer     |-> rp.txt.id,
              confidence |-> LLMService_calculate_confidence(rp.txt),
              time       |-> Round2(rp.dur),
              model      |-> model ])

\* health_check: a probe call; "connected" iff it returned with choices.
\* Never raises.
LLMService_health_check(rp) ==
    IF rp.out = "ok" /\ rp.pay # "no_choices" THEN "connected" ELSE "disconnected"

\* (variant of _update_metrics: "=" for "+=" on the response time)
LLMService_update_metrics_overwrite(n, t, processing_time) ==
    [n |-> n + 1, t |-> processing_time]

\* _update_metrics(processing_time): no await separates the two additions
\* from each other or from the reading of the counters
LLMService_update_metrics(n, t, processing_time) ==
    [n |-> n + 1, t |-> t + processing_time]

\* (variant of get_performance_stats that leaves out the division)
LLMService_get_performance_stats_total(n, t) ==
    [total |-> n, avg |-> Round2(t)]

\* get_performance_stats: average over max(total_requests, 1)
LLMService_get_performance_stats(n, t) ==
    [total |-> n, avg |-> RoundAvg(t, Max(n, 1))]

-----------------------------------------------------------------------------
(* services/llm_service_http.py: LLMServiceHTTP (httpx) *)

\* _calculate_confidence(response, question)
LLMServiceHTTP_calculate_confidence(pay, txt) ==
    IF pay = "null_content" \/ txt.len = 0 \/ txt.striplen < 10
    THEN 30
    ELSE Min(80 + (IF txt.len > 200 THEN 10 ELSE 0) + (IF txt.marker THEN 5 ELSE 0), 100)

\* ask_question(question): the payload's user message is the question; the
\* method has no context parameter.
LLMServiceHTTP_user_message(ctx) == <<"question">>

\* check_health: the user message of the probe call
LLMServiceHTTP_probe_message == <<"Hello">>

\* ask_question: the provider call; raise_for_status; the content is read
\* from result["choices"][0]["message"]["content"]; then the metrics are
\* updated and the dictionary returned.  Every exception inside leaves as
\* LLMServiceError.
LLMServiceHTTP_ask_question(rp, model) ==
    IF rp.out # "ok"
    THEN ServiceResult(TRUE, FALSE, 0, NoData)
    ELSE IF rp.pay \in {"no_choices", "no_content"}
    THEN ServiceResult(TRUE, FALSE, 0, NoData)
    ELSE ServiceResult(FALSE, TRUE, rp.dur,
            [ answer     |-> IF rp.pay = "null_content" THEN "null" ELSE rp.txt.id,
              confidence |-> LLMServiceHTTP_calculate_confidence(rp.pay, rp.txt),
              time       |-> rp.dur,
              model      |-> model ])

\* check_health: TRUE iff the probe call returned a 2xx status.  Never raises.
LLMServiceHTTP_check_health(rp) == rp.out = "ok"

\* get_statistics: average is 0 while total_requests is 0
LLMServiceHTTP_get_statistics(n, t) ==
    [total |-> n, avg |-> IF n > 0 THEN RoundAvg(t, n) ELSE 0]

-----------------------------------------------------------------------------
(* What handling one request did *)

\* resp: the HTTP response; calls: provider calls made; svc: what the
\* service call did (called = FALSE when the service was not reached);
\* created: a service instance was constructed while handling it.
Outcome(r, c, called, svc, created) ==
    [resp |-> r, calls |-> c, called |-> called, svc |-> svc, created |-> created]

NoSvc == ServiceResult(FALSE, FALSE, 0, NoData)

\* The body of a successful POST /api/ask: a QuestionResponse
QuestionResponse(data) ==
    [NoResp EXCEPT !.status = 200, !.keys = QuestionResponse_keys,
                   !.answer = data.answer, !.confidence = data.confidence,
                   !.processing_time = data.time, !.model = data.model]

\* The body of GET /health: a HealthResponse
HealthResponse(status, llm) ==
    [NoResp EXCEPT !.status = 200, !.keys = HealthResponse_keys,
                   !.health = status, !.llm = llm]

-----------------------------------------------------------------------------
(* main.py *)

\* http_exception_handler: the detail dictionary is nested under "message"
main_http_exception_handler(status, detail) ==
    [NoResp EXCEPT !.status = status,
                   !.keys = {"error", "message", "status_code", "timestamp"},
                   !.error = "http_error", !.detail = detail]

\* POST /api/ask
main_ask_question_do(svc, q, rp, model) ==
    IF ~QuestionRequest_valid(q)
    THEN Outcome(RequestValidationError, 0, FALSE, NoSvc, FALSE)
    ELSE IF ~svc
    THEN Outcome(main_http_exception_handler(500, "internal_server_error"),
                 0, FALSE, NoSvc, FALSE)
    ELSE LET r == LLMService_generate_response(rp, model) IN
         IF r.raised
         THEN Outcome(main_http_exception_handler(503, "llm_service_error"),
                      1, TRUE, r, FALSE)
         ELSE IF ~QuestionResponse_valid(
                     {"answer", "confidence", "processing_time", "model_used", "sources"},
                     r.data.confidence, r.data.time)
         THEN Outcome(main_http_exception_handler(500, "internal_server_error"),
                      1, TRUE, r, FALSE)
         ELSE Outcome(QuestionResponse(r.data), 1, TRUE, r, FALSE)

\* (variant of health_check whose probe is counted like a relay)
main_health_check_do_counted(svc, rp) ==
    IF ~svc
    THEN Outcome(HealthResponse("degraded", "disconnected"), 0, FALSE, NoSvc, FALSE)
    ELSE Outcome(HealthResponse("healthy", LLMService_health_check(rp)),
                 1, FALSE, ServiceResult(FALSE, TRUE, rp.dur, NoData), FALSE)

\* GET /health
main_health_check_do(svc, rp) ==
    IF ~svc
    THEN Outcome(HealthResponse("degraded", "disconnected"), 0, FALSE, NoSvc, FALSE)
    ELSE IF HealthResponse_valid({"status", "message", "llm_service_status", "version"})
    THEN Outcome(HealthResponse("healthy", LLMService_health_check(rp)),
                 1, FALSE, NoSvc, FALSE)
    ELSE Outcome(HealthResponse("degraded", "disconnected"), 1, FALSE, NoSvc, FALSE)

\* GET /api/stats
main_get_performance_stats_do(svc, n, t) ==
    IF ~svc
    THEN Outcome(main_http_exception_handler(500, "stats_error"), 0, FALSE, NoSvc, FALSE)
    ELSE LET st == LLMService_get_performance_stats(n, t) IN
         Outcome([NoResp EXCEPT !.status = 200,
                                !.keys = {"api_version", "llm_stats", "timestamp"},
                                !.total = st.total, !.avg = st.avg],
                 0, FALSE, NoSvc, FALSE)

-----------------------------------------------------------------------------
(* main_http.py *)

\* http_exception_handler: the detail string is the "error" value
http_http_exception_handler(status, detail) ==
    [NoResp EXCEPT !.status = status,
                   !.keys = {"error", "status_code", "timestamp"},
                   !.error = detail, !.detail = detail]

\* general_exception_handler: an exception that left the handler
http_general_exception_handler ==
    [NoResp EXCEPT !.status = 500,
                   !.keys = {"error", "status_code", "timestamp"},
                   !.error = "Internal server error", !.detail = "escaped"]

\* POST /api/ask.  The HTTPException(400) for a blank question is raised
\* inside the try block, whose "except Exception" turns it into a 500.
http_ask_question_do(svc, q, rp, model) ==
    IF ~QuestionRequest_valid(q)
    THEN Outcome(RequestValidationError, 0, FALSE, NoSvc, FALSE)
    ELSE IF q.len = 0 \/ q.nonblank = 0
    THEN Outcome(http_http_exception_handler(500, "Internal server error"),
                 0, FALSE, NoSvc, FALSE)
    ELSE IF ~svc
    THEN Outcome(http_http_exception_handler(500, "Internal server error"),
                 0, FALSE, NoSvc, FALSE)
    ELSE LET r == LLMServiceHTTP_ask_question(rp, model) IN
         IF r.raised
         THEN Outcome(http_http_exception_handler(503, "AI service temporarily unavailable"),
                      1, TRUE, r, FALSE)
         ELSE IF ~QuestionResponse_valid(
                     {"response", "confidence", "response_time", "timestamp", "model"},
                     r.data.confidence, r.data.time)
         THEN Outcome(http_http_exception_handler(500, "Internal server error"),
                      1, TRUE, r, FALSE)
         ELSE Outcome(QuestionResponse(r.data), 1, TRUE, r, FALSE)

\* GET /health.  Both HealthResponse constructions, in the try block and in
\* the except block, supply llm_status and no message.
http_health_check_do(svc, rp) ==
    LET c == IF svc THEN 1 ELSE 0 IN
    IF svc /\ HealthResponse_valid({"status", "timestamp", "llm_status", "version"})
    THEN Outcome(HealthResponse(
                     IF LLMServiceHTTP_check_health(rp) THEN "healthy" ELSE "degraded",
                     IF LLMServiceHTTP_check_health(rp) THEN "connected" ELSE "disconnected"),
                 c, FALSE, NoSvc, FALSE)
    ELSE IF HealthResponse_valid({"status", "timestamp", "llm_status", "version", "error"})
    THEN Outcome(HealthResponse("unhealthy", "error"), c, FALSE, NoSvc, FALSE)
    ELSE Outcome(http_general_exception_handler, c, FALSE, NoSvc, FALSE)

\* GET /api/stats
http_get_statistics_do(svc, n, t) ==
    IF ~svc
    THEN Outcome([NoResp EXCEPT !.status = 200, !.keys = {"error", "system_info"},
                                !.error = "Statistics temporarily unavailable",
                                !.health = "degraded"],
                 0, FALSE, NoSvc, FALSE)
    ELSE LET st == LLMServiceHTTP_get_statistics(n, t) IN
         Outcome([NoResp EXCEPT !.status = 200, !.keys = {"api_stats", "system_info"},
                                !.total = st.total, !.avg = st.avg],
                 0, FALSE, NoSvc, FALSE)

-----------------------------------------------------------------------------
(* vercel_app.py *)

\* http_exception_handler: the detail dictionary is the body
vercel_http_exception_handler(status, detail) ==
    [NoResp EXCEPT !.status = status,
                   !.keys = {"error", "message", "timestamp"},
                   !.error = detail, !.detail = detail]

\* (variant of get_llm_service without the "is None" test)
vercel_get_llm_service_unguarded(svc, initOk) ==
    [ok |-> svc \/ initOk, created |-> initOk]

\* get_llm_service: the instance is constructed on first use; initOk says
\* whether LLMService(settings) returns (TRUE) or raises (FALSE).
vercel_get_llm_service(svc, initOk) ==
    [ok |-> svc \/ initOk, created |-> ~svc /\ initOk]

\* POST /api/ask
vercel_ask_question_do(svc, initOk, q, rp, model) ==
    LET g == vercel_get_llm_service(svc, initOk) IN
    IF ~QuestionRequest_valid(q)
    THEN Outcome(RequestValidationError, 0, FALSE, NoSvc, FALSE)
    ELSE IF ~g.ok
    THEN Outcome(vercel_http_exception_handler(500, "internal_server_error"),
                 0, FALSE, NoSvc, FALSE)
    ELSE LET r == LLMService_generate_response(rp, model) IN
         IF r.raised
         THEN Outcome(vercel_http_exception_handler(503, "llm_service_error"),
                      1, TRUE, r, g.created)
         ELSE IF ~QuestionResponse_valid(
                     {"answer", "confidence", "processing_time", "model_used", "sources"},
                     r.data.confidence, r.data.time)
         THEN Outcome(vercel_http_exception_handler(500, "internal_server_error"),
                      1, TRUE, r, g.created)
         ELSE Outcome(QuestionResponse(r.data), 1, TRUE, r, g.created)

\* GET /health
vercel_health_check_do(svc, initOk, rp) ==
    LET g == vercel_get_llm_service(svc, initOk) IN
    IF ~g.ok
    THEN Outcome(HealthResponse("degraded", "disconnected"), 0, FALSE, NoSvc, FALSE)
    ELSE IF HealthResponse_valid(
                {"status", "message", "llm_service_status", "version", "timestamp"})
    THEN Outcome(HealthResponse("healthy", LLMService_health_check(rp)),
                 1, FALSE, NoSvc, g.created)
    ELSE Outcome(HealthResponse("degraded", "disconnected"), 1, FALSE, NoSvc, g.created)

-----------------------------------------------------------------------------
(* api/index.py *)

RawGetPaths == {"/health", "/", "/api/stats"}

RawPostPaths == {"/api/ask", "/api/other"}

\* What json.loads makes of the bytes of a POST body: a JSON object, an
\* error (not JSON, not UTF-8, empty), or a JSON value that is not an object
\* (a list, a string, a number, null)
RawBodies == {"object", "invalid_json", "not_object"}

\* call_groq_api(question): the user message is the question; do_POST reads
\* no other key of the body.
call_groq_api_user_message(ctx) == <<"question">>

\* (variant of call_groq_api that does not test response.status_code)
call_groq_api_unchecked(key, rp) ==
    IF ~key
    THEN [ calls |-> 0, keys |-> {"answer", "confidence", "error"},
           answer |-> "not_configured", confidence |-> 0, error |-> "missing_api_key",
           model |-> "none", time |-> -1 ]
    ELSE IF rp.out \in {"ok", "non2xx"} /\ rp.pay \in {"wellformed", "na"}
    THEN [ calls |-> 1, keys |-> {"answer", "confidence", "model", "processing_time"},
           answer |-> rp.txt.id, confidence |-> 90, error |-> "none",
           model |-> DefaultModel, time |-> Round2(rp.dur) ]
    ELSE [ calls |-> 1, keys |-> {"answer", "confidence", "error"},
           answer |-> "sorry_exception", confidence |-> 0, error |-> "processing_error",
           model |-> "none", time |-> -1 ]

\* call_groq_api(question): a dictionary; never raises.  The model name is
\* the literal of the function, not settings.MODEL_NAME.
call_groq_api(key, rp) ==
    IF ~key
    THEN [ calls |-> 0, keys |-> {"answer", "confidence", "error"},
           answer |-> "not_configured", confidence |-> 0, error |-> "missing_api_key",
           model |-> "none", time |-> -1 ]
    ELSE IF rp.out = "ok" /\ rp.pay = "wellformed"
    THEN [ calls |-> 1, keys |-> {"answer", "confidence", "model", "processing_time"},
           answer |-> rp.txt.id, confidence |-> 90, error |-> "none",
           model |-> DefaultModel, time |-> Round2(rp.dur) ]
    ELSE IF rp.out = "ok" /\ rp.pay = "null_content"
    THEN [ calls |-> 1, keys |-> {"answer", "confidence", "model", "processing_time"},
           answer |-> "null", confidence |-> 90, error |-> "none",
           model |-> DefaultModel, time |-> Round2(rp.dur) ]
    ELSE IF rp.out = "non2xx"
    THEN [ calls |-> 1, keys |-> {"answer", "confidence", "error"},
           answer |-> "sorry_status", confidence |-> 0, error |-> "api_error",
           model |-> "none", time |-> -1 ]
    ELSE [ calls |-> 1, keys |-> {"answer", "confidence", "error"},
           answer |-> "sorry_exception", confidence |-> 0, error |-> "processing_error",
           model |-> "none", time |-> -1 ]

\* (variant of do_POST whose except block is not taken for a body that is
\* not a JSON object)
raw_do_POST_do_unguarded(key, path, body, q, rp) ==
    IF path # "/api/ask"
    THEN Outcome([NoResp EXCEPT !.status = 200, !.keys = {"error"},
                                !.error = "Endpoint not found"],
                 0, FALSE, NoSvc, FALSE)
    ELSE IF body = "object" /\ q.len = 0
    THEN Outcome([NoResp EXCEPT !.status = 200,
                                !.keys = {"error", "message", "timestamp"},
                                !.error = "No question provided"],
                 0, FALSE, NoSvc, FALSE)
    ELSE LET a == call_groq_api(key, rp) IN
         Outcome([NoResp EXCEPT !.status = 200,
                                !.keys = a.keys \cup {"timestamp"},
                                !.answer = a.answer, !.confidence = a.confidence,
                                !.processing_time = a.time, !.model = a.model,
                                !.error = a.error],
                 a.calls, FALSE, NoSvc, FALSE)

\* do_POST: send_response(200) comes first, whatever follows.  On /api/ask
\* json.loads raises for a body that is not JSON, and request_data.get raises
\* for a JSON value that is not an object; "except Exception" answers both.
raw_do_POST_do(key, path, body, q, rp) ==
    IF path # "/api/ask"
    THEN Outcome([NoResp EXCEPT !.status = 200, !.keys = {"error"},
                                !.error = "Endpoint not found"],
                 0, FALSE, NoSvc, FALSE)
    ELSE IF body # "object"
    THEN Outcome([NoResp EXCEPT !.status = 200,
                                !.keys = {"error", "message", "timestamp"},
                                !.error = "Failed to process request"],
                 0, FALSE, NoSvc, FALSE)
    ELSE IF q.len = 0
    THEN Outcome([NoResp EXCEPT !.status = 200,
                                !.keys = {"error", "message", "timestamp"},
                                !.error = "No question provided"],
                 0, FALSE, NoSvc, FALSE)
    ELSE LET a == call_groq_api(key, rp) IN
         Outcome([NoResp EXCEPT !.status = 200,
                                !.keys = a.keys \cup {"timestamp"},
                                !.answer = a.answer, !.confidence = a.confidence,
                                !.processing_time = a.time, !.model = a.model,
                                !.error = a.error],
                 a.calls, FALSE, NoSvc, FALSE)

\* do_GET: send_response(200) comes first; /health, else the banner
raw_do_GET_do(key, path) ==
    IF path = "/health"
    THEN Outcome(HealthResponse("healthy", IF key THEN "connected" ELSE "disconnected"),
                 0, FALSE, NoSvc, FALSE)
    ELSE Outcome([NoResp EXCEPT !.status = 200,
                                !.keys = {"message", "description", "version",
                                          "docs", "health", "ask"}],
                 0, FALSE, NoSvc, FALSE)

-----------------------------------------------------------------------------
(* The state machine *)

Init ==
    /\ app \in Variants
    /\ keySet \in BOOLEAN
    /\ modelName \in ModelNames
    /\ phase = IF app \in {"main", "http"} THEN "created" ELSE "serving"
    /\ svcSet = FALSE
    /\ total_requests = 0
    /\ total_response_time = 0
    /\ clientClosed = FALSE
    /\ req = NoReq
    /\ resp = NoResp
    /\ calls = 0
    /\ relayOk = 0
    /\ userMessage = <<>>
    /\ instances = 0
    /\ inflight = [i \in Ids |-> Idle]
    /\ content = NoContent
    /\ final_confidence = -1
    /\ sources = NotExtracted

\* Requests are handled while the application is up: after the lifespan
\* startup ("serving"), or under a server that does not drive lifespan
\* events ("bare").
Serving == phase \in {"serving", "bare"}

Request(endpoint, q, ctx, rp, c) ==
    [endpoint |-> endpoint,
     body |-> IF endpoint \in {"ask", "other"} THEN "object" ELSE "none",
     q |-> q, ctx |-> ctx,
     reply |-> IF c = 0 THEN NoReply ELSE rp]

\* The effect of one handled request r on the process state
\* (msg: the user message the handler's service call sends)
CommitRequest(r, msg, o) ==
    /\ req' = r
    /\ resp' = o.resp
    /\ calls' = o.calls
    /\ userMessage' = IF o.calls = 0 THEN <<>> ELSE msg
    /\ svcSet' = (svcSet \/ o.created)
    /\ instances' = instances + (IF o.created THEN 1 ELSE 0)
    /\ LET m == LLMService_update_metrics(total_requests, total_response_time, o.svc.dur)
       IN /\ total_requests' = IF o.svc.counted THEN m.n ELSE total_requests
          /\ total_response_time' = IF o.svc.counted THEN m.t ELSE total_response_time
    /\ relayOk' = relayOk + (IF o.called /\ ~o.svc.raised THEN 1 ELSE 0)
    /\ UNCHANGED <<app, keySet, modelName, phase, clientClosed>>
    /\ UNCHANGED <<relayVars, textVars>>

Commit(endpoint, q, ctx, rp, msg, o) ==
    CommitRequest(Request(endpoint, q, ctx, rp, o.calls), msg, o)

(* main.py *)

\* lifespan, startup half: a failed LLMService(settings) is re-raised and
\* the application does not start
main_lifespan_startup(initOk) ==
    /\ app = "main"
    /\ phase = "created"
    /\ svcSet' = initOk
    /\ instances' = instances + (IF initOk THEN 1 ELSE 0)
    /\ phase' = IF initOk THEN "serving" ELSE "aborted"
    /\ req' = [NoReq EXCEPT !.endpoint = "startup"]
    /\ resp' = NoResp
    /\ calls' = 0
    /\ userMessage' = <<>>
    /\ UNCHANGED <<app, keySet, modelName, total_requests, total_response_time,
                   clientClosed, relayOk, relayVars, textVars>>

\* lifespan, shutdown half
main_lifespan_shutdown ==
    /\ app = "main"
    /\ phase = "serving"
    /\ phase' = "stopped"
    /\ req' = [NoReq EXCEPT !.endpoint = "shutdown"]
    /\ resp' = NoResp
    /\ calls' = 0
    /\ userMessage' = <<>>
    /\ UNCHANGED <<app, keySet, modelName, svcSet, total_requests,
                   total_response_time, clientClosed, relayOk, instances,
                   relayVars, textVars>>

main_ask_question(q, ctx, rp) ==
    /\ app = "main"
    /\ Serving
    /\ total_requests < MaxRequests
    /\ Commit("ask", q, ctx, rp, LLMService_build_user_message(ctx),
              main_ask_question_do(svcSet, q, rp, modelName))

main_health_check(rp) ==
    /\ app = "main"
    /\ Serving
    /\ Commit("health", NoQuestion, "none", rp, LLMService_probe_message,
              main_health_check_do(svcSet, rp))

main_get_performance_stats ==
    /\ app = "main"
    /\ Serving
    /\ Commit("stats", NoQuestion, "none", NoReply, <<>>,
              main_get_performance_stats_do(svcSet, total_requests, total_response_time))

(* main_http.py *)

\* lifespan, startup half: construction, set_llm_service, a startup probe;
\* a failure is logged and the application starts without a service
http_lifespan_startup(initOk, rp) ==
    /\ app = "http"
    /\ phase = "created"
    /\ svcSet' = initOk
    /\ instances' = instances + (IF initOk THEN 1 ELSE 0)
    /\ phase' = "serving"
    /\ calls' = IF initOk THEN 1 ELSE 0
    /\ userMessage' = IF initOk THEN LLMServiceHTTP_probe_message ELSE <<>>
    /\ req' = [NoReq EXCEPT !.endpoint = "startup",
                            !.reply = IF initOk THEN rp ELSE NoReply]
    /\ resp' = NoResp
    /\ UNCHANGED <<app, keySet, modelName, total_requests, total_response_time,
                   clientClosed, relayOk, relayVars, textVars>>

\* (variant of the shutdown half that calls close() without the
\* "if llm_service_instance" test)
http_lifespan_shutdown_unconditional ==
    /\ app = "http"
    /\ phase = "serving"
    /\ phase' = "stopped"
    /\ clientClosed' = TRUE
    /\ req' = [NoReq EXCEPT !.endpoint = "shutdown"]
    /\ resp' = NoResp
    /\ calls' = 0
    /\ userMessage' = <<>>
    /\ UNCHANGED <<app, keySet, modelName, svcSet, total_requests,
                   total_response_time, relayOk, instances, relayVars, textVars>>

\* lifespan, shutdown half: close() if the instance was constructed
http_lifespan_shutdown ==
    /\ app = "http"
    /\ phase = "serving"
    /\ phase' = "stopped"
    /\ clientClosed' = svcSet
    /\ req' = [NoReq EXCEPT !.endpoint = "shutdown"]
    /\ resp' = NoResp
    /\ calls' = 0
    /\ userMessage' = <<>>
    /\ UNCHANGED <<app, keySet, modelName, svcSet, total_requests,
                   total_response_time, relayOk, instances, relayVars, textVars>>

http_ask_question(q, ctx, rp) ==
    /\ app = "http"
    /\ Serving
    /\ total_requests < MaxRequests
    /\ Commit("ask", q, ctx, rp, LLMServiceHTTP_user_message(ctx),
              http_ask_question_do(svcSet, q, rp, modelName))

http_health_check(rp) ==
    /\ app = "http"
    /\ Serving
    /\ Commit("health", NoQuestion, "none", rp, LLMServiceHTTP_probe_message,
              http_health_check_do(svcSet, rp))

http_get_statistics ==
    /\ app = "http"
    /\ Serving
    /\ Commit("stats", NoQuestion, "none", NoReply, <<>>,
              http_get_statistics_do(svcSet, total_requests, total_response_time))

\* The application object served by a server that sends no lifespan events:
\* the module-level service instance stays None.
serve_without_lifespan ==
    /\ app \in {"main", "http"}
    /\ phase = "created"
    /\ phase' = "bare"
    /\ UNCHANGED <<app, keySet, modelName, svcSet, total_requests,
                   total_response_time, clientClosed, req, resp, calls, relayOk,
                   userMessage, instances, relayVars, textVars>>

(* vercel_app.py *)

vercel_ask_question(initOk, q, ctx, rp) ==
    /\ app = "vercel"
    /\ Serving
    /\ total_requests < MaxRequests
    /\ Commit("ask", q, ctx, rp, LLMService_build_user_message(ctx),
              vercel_ask_question_do(svcSet, initOk, q, rp, modelName))

vercel_health_check(initOk, rp) ==
    /\ app = "vercel"
    /\ Serving
    /\ Commit("health", NoQuestion, "none", rp, LLMService_probe_message,
              vercel_health_check_do(svcSet, initOk, rp))

(* api/index.py *)

\* the keys of the body are read only from a JSON object
raw_do_POST(path, body, q, ctx, rp) ==
    /\ app = "raw"
    /\ Serving
    /\ IF body = "object" THEN q \in Questions ELSE q = NoQuestion /\ ctx = "none"
    /\ LET o == raw_do_POST_do(keySet, path, body, q, rp)
           r == Request(IF path = "/api/ask" THEN "ask" ELSE "other",
                        q, ctx, rp, o.calls)
       IN CommitRequest([r EXCEPT !.body = body],
                        call_groq_api_user_message(ctx), o)

raw_do_GET(path) ==
    /\ app = "raw"
    /\ Serving
    /\ Commit(IF path = "/health" THEN "health"
              ELSE IF path = "/api/stats" THEN "stats" ELSE "root",
              NoQuestion, "none", NoReply, <<>>, raw_do_GET_do(keySet, path))

Next ==
    \/ \E initOk \in InitOutcomes : main_lifespan_startup(initOk)
    \/ main_lifespan_shutdown
    \/ \E q \in Questions, ctx \in Contexts, rp \in RepliesFor(keySet) :
           main_ask_question(q, ctx, rp)
    \/ \E rp \in RepliesFor(keySet) : main_health_check(rp)
    \/ main_get_performance_stats
    \/ \E initOk \in InitOutcomes, rp \in RepliesFor(keySet) : http_lifespan_startup(initOk, rp)
    \/ http_lifespan_shutdown
    \/ \E q \in Questions, ctx \in Contexts, rp \in RepliesFor(keySet) :
           http_ask_question(q, ctx, rp)
    \/ \E rp \in RepliesFor(keySet) : http_health_check(rp)
    \/ http_get_statistics
    \/ serve_without_lifespan
    \/ \E initOk \in InitOutcomes, q \in Questions, ctx \in Contexts, rp \in RepliesFor(keySet) :
           vercel_ask_question(initOk, q, ctx, rp)
    \/ \E initOk \in InitOutcomes, rp \in RepliesFor(keySet) : vercel_health_check(initOk, rp)
    \/ \E path \in RawPostPaths, body \in RawBodies, q \in Questions \cup {NoQuestion},
          ctx \in Contexts, rp \in RepliesFor(keySet) :
           raw_do_POST(path, body, q, ctx, rp)
    \/ \E path \in RawGetPaths : raw_do_GET(path)

Spec == Init /\ [][Next]_vars

-----------------------------------------------------------------------------
(* RelaySpec: requests in flight together.  The handlers and the service    *)
(* methods are coroutines on one event loop: a step runs one of them from   *)
(* one await to the next, and the only await of a request is the provider   *)
(* call.                                                                    *)

\* The timeout, in seconds, the repository's code gives its HTTP client:
\* httpx.AsyncClient(timeout=30.0) in LLMServiceHTTP, requests.post(...,
\* timeout=30) in call_groq_api; LLMService passes none to AsyncGroq or to
\* chat.completions.create (0).
ClientTimeout(variant) ==
    CASE variant = "http" -> 30
      [] variant = "raw"  -> 30
      [] OTHER            -> 0

\* (variant in which a failed provider call is issued again)
AfterProviderError_retry(variant) == "calling"

\* Where a request goes when its provider call failed: the except clauses
\* raise LLMServiceError (call_groq_api: return the error dictionary), and
\* the handler answers; nothing loops back to the call.
AfterProviderError(variant) == "answered"

RelayInit ==
    /\ app \in Variants
    /\ keySet \in BOOLEAN
    /\ modelName \in ModelNames
    /\ phase = "serving"
    /\ svcSet = (app \in {"main", "http"})
    /\ instances = IF app \in {"main", "http"} THEN 1 ELSE 0
    /\ total_requests = 0
    /\ total_response_time = 0
    /\ clientClosed = FALSE
    /\ req = NoReq
    /\ resp = NoResp
    /\ calls = 0
    /\ relayOk = 0
    /\ userMessage = <<>>
    /\ inflight = [i \in Ids |-> Idle]
    /\ content = NoContent
    /\ final_confidence = -1
    /\ sources = NotExtracted

\* A request is received and its handler runs up to the provider call.
\* vercel_app.py: get_llm_service() first; a new instance has counters 0.
\* api/index.py: /health makes no call, nor does /api/ask without a key.
relay_begin(i, kind, initOk) ==
    /\ inflight[i].pc = "idle"
    /\ LET g == IF app = "vercel" THEN vercel_get_llm_service(svcSet, initOk)
                ELSE [ok |-> TRUE, created |-> FALSE]
           nocall == ~g.ok \/ (app = "raw" /\ (kind = "health" \/ ~keySet))
       IN /\ svcSet' = (svcSet \/ g.created)
          /\ instances' = instances + (IF g.created THEN 1 ELSE 0)
          /\ total_requests' = IF g.created THEN 0 ELSE total_requests
          /\ total_response_time' = IF g.created THEN 0 ELSE total_response_time
          /\ inflight' = [inflight EXCEPT ![i] =
                IF nocall
                THEN [ pc |-> "answered", kind |-> kind, ncalls |-> 0, dur |-> 0,
                       result |-> IF kind = "health" THEN "ok" ELSE "error" ]
                ELSE [ pc |-> "calling", kind |-> kind, ncalls |-> 1, dur |-> 0,
                       result |-> "none" ]]
    /\ UNCHANGED <<app, keySet, modelName, procVars, textVars>>

\* The await of the provider call of request i ends with rp, and the
\* coroutine runs on to its return.
RelayComplete(i, rp) ==
    LET r   == inflight[i]
        res == IF r.kind = "health" THEN NoSvc
               ELSE IF app = "http" THEN LLMServiceHTTP_ask_question(rp, modelName)
               ELSE IF app = "raw"
               THEN ServiceResult(call_groq_api(keySet, rp).error # "none", FALSE, 0, NoData)
               ELSE LLMService_generate_response(rp, modelName)
        m    == LLMService_update_metrics(total_requests, total_response_time, res.dur)
        next == IF res.raised THEN AfterProviderError(app) ELSE "answered"
    IN /\ total_requests' = IF res.counted THEN m.n ELSE total_requests
       /\ total_response_time' = IF res.counted THEN m.t ELSE total_response_time
       /\ inflight' = [inflight EXCEPT ![i] =
             [ pc     |-> next,
               kind   |-> r.kind,
               ncalls |-> r.ncalls + (IF next = "calling" THEN 1 ELSE 0),
               dur    |-> IF rp.out = "ok" THEN rp.dur ELSE 0,
               result |-> IF next = "calling" THEN "none"
                          ELSE IF res.raised THEN "error" ELSE "ok" ]]
       /\ UNCHANGED <<app, keySet, modelName, svcSet, instances, procVars, textVars>>

\* The provider answers the call of request i, or the connection fails
provider_reply(i, rp) ==
    /\ inflight[i].pc = "calling"
    /\ rp.out # "timeout"
    /\ RelayComplete(i, rp)

\* The timeout the client was given expires on the call of request i
client_timeout(i) ==
    /\ inflight[i].pc = "calling"
    /\ ClientTimeout(app) > 0
    /\ RelayComplete(i, [out |-> "timeout", pay |-> "na", txt |-> NoText, dur |-> 0])

RelayNext ==
    \E i \in Ids :
        \/ \E kind \in {"ask", "health"}, initOk \in InitOutcomes : relay_begin(i, kind, initOk)
        \/ \E rp \in RepliesFor(keySet) : provider_reply(i, rp)
        \/ client_timeout(i)

RelaySpec == RelayInit /\ [][RelayNext]_vars

\* A timeout given to the client expires if the call stays pending; the
\* provider itself owes no answer.
RelayFairSpec == RelaySpec /\ \A i \in Ids : WF_vars(client_timeout(i))

-----------------------------------------------------------------------------
(* TextSpec: the text heuristics of LLMService on answer texts *)

TextInit ==
    /\ app = "main"
    /\ keySet = TRUE
    /\ modelName = DefaultModel
    /\ phase = "serving"
    /\ svcSet = TRUE
    /\ instances = 1
    /\ total_requests = 0
    /\ total_response_time = 0
    /\ clientClosed = FALSE
    /\ req = NoReq
    /\ resp = NoResp
    /\ calls = 0
    /\ relayOk = 0
    /\ userMessage = <<>>
    /\ inflight = [i \in Ids |-> Idle]
    /\ content \in Contents \cup {DetailedContent}
    /\ final_confidence = -1
    /\ sources = NotExtracted

\* generate_response builds its result: confidence and sources of the text
build_result ==
    /\ final_confidence = -1
    /\ final_confidence' = LLMService_calculate_confidence(TextOf(content))
    /\ sources' = LLMService_extract_sources(content)
    /\ UNCHANGED <<app, keySet, modelName, svcSet, total_requests,
                   total_response_time, instances, procVars, relayVars, content>>

\* The smallest length of TextLens a text of at least n characters has
LengthFor(n) ==
    IF \E l \in TextLens : l >= n
    THEN CHOOSE l \in TextLens : l >= n /\ \A k \in TextLens : k >= n => l <= k
    ELSE n

\* The result for a text that differs from the scored one by c
Rebuild(c) ==
    /\ final_confidence # -1
    /\ c # content
    /\ content' = c
    /\ final_confidence' = LLMService_calculate_confidence(TextOf(c))
    /\ sources' = LLMService_extract_sources(c)
    /\ UNCHANGED <<app, keySet, modelName, svcSet, total_requests,
                   total_response_time, instances, procVars, relayVars>>

\* ... by one more of the substrings
content_gains(f) ==
    /\ f \notin content.has
    /\ Cardinality(content.has) < MaxFeatures
    /\ LET has == Closure(content.has \cup {f})
       IN Rebuild([len |-> LengthFor(Max(content.len, MinLen(has))), has |-> has])

\* ... by being longer
content_lengthens(l) ==
    /\ l > content.len
    /\ Rebuild([len |-> l, has |-> content.has])

TextNext ==
    \/ build_result
    \/ \E f \in Substrings : content_gains(f)
    \/ \E l \in TextLens : content_lengthens(l)

TextSpec == TextInit /\ [][TextNext]_vars

-----------------------------------------------------------------------------
(* Properties *)

IsAsk == req.endpoint = "ask"

\* the question is non-empty, not blank and within the length bound
GoodQuestion == QuestionRequest_valid(req.q) /\ req.q.nonblank > 0

ProviderFailed == calls = 1 /\ req.reply.out \in {"non2xx", "network", "timeout"}

ProviderMalformed ==
    calls = 1 /\ req.reply.out = "ok" /\ req.reply.pay \in {"no_choices", "no_content"}

ProviderSucceeded == calls = 1 /\ req.reply.out = "ok" /\ req.reply.pay = "wellformed"

\* C1: a POST /api/ask whose question is empty or only whitespace is answered
\* with a 4xx validation error, and no provider call is made for it.
C1_BlankQuestionRejected ==
    (IsAsk /\ req.q.nonblank = 0) => (resp.status \in 400..499 /\ calls = 0)

\* C2: when the provider call made for a POST /api/ask times out, fails on the
\* network or returns a non-2xx status, the answer is a 503 whose body has no
\* answer field.
C2_ProviderFailureIs503 ==
    (IsAsk /\ ProviderFailed) => (resp.status = 503 /\ "answer" \notin resp.keys)

\* C3: with GROQ_API_KEY absent, POST /api/ask with a non-empty question
\* returns the fixed "not configured" answer with confidence 0, GET /health
\* reports llm_service_status "disconnected", and neither makes a provider call.
C3_NoCredentialDegrades ==
    ~keySet =>
        /\ (IsAsk /\ QuestionRequest_valid(req.q)) =>
               (resp.answer = "not_configured" /\ resp.confidence = 0 /\ calls = 0)
        /\ req.endpoint = "health" => (resp.llm = "disconnected" /\ calls = 0)

\* C4: total_requests equals the number of relay requests that succeeded, in
\* the service and in the statistics report.
C4_TotalEqualsSucceeded ==
    /\ total_requests = relayOk
    /\ (req.endpoint = "stats" /\ resp.total # -1) => resp.total = relayOk

\* C5: for a valid non-empty question, a provider call that succeeds with a
\* well-formed payload yields a 200 whose confidence lies in [0,1] and whose
\* processing_time, as rounded into the response, is strictly positive.
C5_SuccessIsValidResponse ==
    (IsAsk /\ GoodQuestion /\ ProviderSucceeded) =>
        /\ resp.status = 200
        /\ resp.confidence >= 0
        /\ resp.confidence <= 100
        /\ resp.processing_time > 0

\* C6: a question without context, answered by the provider with a fixed
\* text, yields a response whose answer is that text verbatim and whose
\* model field is the configured MODEL_NAME.
C6_AnswerVerbatim ==
    (IsAsk /\ GoodQuestion /\ req.ctx = "none" /\ ProviderSucceeded) =>
        /\ resp.answer = req.reply.txt.id
        /\ resp.model = modelName

\* C7: GET /health always returns status 200 with a structured health
\* object; no exception leaves the handler.
C7_HealthNeverFails ==
    req.endpoint = "health" =>
        /\ resp.status = 200
        /\ HealthResponse_keys \subseteq resp.keys
        /\ resp.health \in {"healthy", "degraded", "unhealthy"}

\* C8: GET /api/stats never answers with an HTTP error status.
C8_StatsNeverFails ==
    req.endpoint = "stats" => resp.status = 200

\* C9: a 2xx provider response with a malformed payload makes POST /api/ask
\* answer 500, and a 503 is produced only by provider non-2xx, network
\* failure and timeout.
C9_MalformedIs500 ==
    IsAsk =>
        /\ ProviderMalformed => resp.status = 500
        /\ resp.status = 503 => ProviderFailed

\* C10: every error response of POST /api/ask has a JSON body whose
\* top-level keys include error, message and timestamp.
C10_ErrorShape ==
    (IsAsk /\ resp.status >= 400) => {"error", "message", "timestamp"} \subseteq resp.keys

\* the relay requests of RelaySpec
Asks == {i \in Ids : inflight[i].kind = "ask"}

RECURSIVE SumDur(_)
SumDur(S) ==
    IF S = {} THEN 0
    ELSE LET i == CHOOSE j \in S : TRUE IN inflight[i].dur + SumDur(S \ {i})

C12_NoLostUpdate ==
    (app # "raw" /\ \A i \in Asks : inflight[i].pc = "answered" /\ inflight[i].result = "ok")
        => /\ total_requests = Cardinality(Asks)
           /\ total_response_time = SumDur(Asks)

\* MaxInflight relay requests of different durations, all succeeded
C12_Witness ==
    /\ app # "raw"
    /\ Asks = Ids
    /\ \A i \in Ids : inflight[i].pc = "answered" /\ inflight[i].result = "ok"
    /\ \E i, j \in Ids : inflight[i].dur # inflight[j].dur

\* C13: a GET /api/stats is answered with status 200 and a body that carries
\* the in-memory counters (total requests and average latency).
C13_StatsCarriesCounters ==
    req.endpoint = "stats" =>
        /\ resp.status = 200
        /\ resp.total = total_requests
        /\ resp.avg # -1

\* C14: a POST /api/ask whose question is longer than the length bound is
\* rejected with a 4xx validation error, and no provider call is made for it.
C14_OversizeRejected ==
    (IsAsk /\ req.q.len > MAX_QUESTION_LEN) => (resp.status \in 400..499 /\ calls = 0)

C16_ContextPrepended ==
    (IsAsk /\ calls = 1) =>
        userMessage = IF req.ctx = "some" THEN <<"context", "question">> ELSE <<"question">>

\* C17: source extraction returns None, or a list of at least one and at
\* most 5 entries; never an empty list, never more than 5.
C17_SourcesNoneOrUpToFive ==
    \/ sources.kind = "pending"
    \/ sources.kind = "None" /\ sources.list = <<>>
    \/ sources.kind = "list" /\ Len(sources.list) >= 1 /\ Len(sources.list) <= 5

\* a text with more than 5 matches: the entry for "tax" was cut off
C17_Witness ==
    /\ sources.kind = "list"
    /\ Len(sources.list) = 5
    /\ "tax" \in content.has
    /\ sources.list[5] # "Tax Authority"

\* C18: the LLMService confidence of every answer text lies in [0.85, 0.98],
\* and a text that gains a matched keyword or becomes longer never gets a
\* lower confidence.
C18_ConfidenceRangeMonotone ==
    /\ [](final_confidence # -1 => (final_confidence >= 85 /\ final_confidence <= 98))
    /\ [][final_confidence # -1 => final_confidence' >= final_confidence]_vars

\* a text whose base, length bonus and keyword bonus exceed 0.98: clamped
C18_Witness ==
    /\ final_confidence = 98
    /\ content.len >= 100
    /\ Cardinality(content.has \cap quality_indicators) >= 4

\* C19: in the serverless variant at most one LLMService instance is
\* constructed per process, however the first requests interleave, and the
\* counters are never reset by a later request.
C19_OneInstance ==
    /\ [](app = "vercel" => instances <= 1)
    /\ [][app = "vercel" =>
             (total_requests' >= total_requests /\
              total_response_time' >= total_response_time)]_vars

\* two first requests suspended in their provider calls, one instance
C19_Witness ==
    /\ app = "vercel"
    /\ instances = 1
    /\ \E i, j \in Ids :
           i # j /\ inflight[i].pc = "calling" /\ inflight[j].pc = "calling"

\* a statistics report: the body carries the counters
StatsReported == req.endpoint = "stats" /\ resp.total # -1

\* C20 (as stated): the report shows total_requests 0 and average 0 before
\* any relay has completed; after a successful relay the reported average
\* equals the cumulative response time divided by total_requests.
C20_AverageExact ==
    StatsReported =>
        /\ total_requests = 0 => (resp.total = 0 /\ resp.avg = 0)
        /\ relayOk >= 1 => resp.avg * 10 * resp.total = total_response_time

\* C20 (amended): ... the reported average equals the cumulative response
\* time divided by total_requests, rounded to two decimals (it is within
\* half a hundredth of a second of the quotient).
C20_AverageRounded ==
    StatsReported =>
        /\ resp.total = total_requests
        /\ total_requests = 0 => resp.avg = 0
        /\ relayOk >= 1 =>
              /\ 2 * (resp.avg * 10 * resp.total - total_response_time) <= 10 * resp.total
              /\ 2 * (total_response_time - resp.avg * 10 * resp.total) <= 10 * resp.total

\* a report after two relays whose average is not a whole hundredth
C20_Witness ==
    /\ StatsReported
    /\ relayOk = 2
    /\ resp.total = 2
    /\ total_response_time = 42

\* C21: a relay request that ends in an error (the provider call failed, or
\* shaping the response failed) leaves total_requests and the cumulative
\* response time as they were.
C21_ErrorLeavesCounters ==
    [][(req'.endpoint = "ask" /\ resp'.status # 200)
          => (total_requests' = total_requests
              /\ total_response_time' = total_response_time)]_vars

\* C22: after a successful relay the QuestionResponse carries all its required
\* fields, and after a health probe the HealthResponse carries all of its
\* required fields, so that building the response object does not fail.
C22_ResponsesSupplyRequiredFields ==
    app # "raw" =>
        /\ (IsAsk /\ GoodQuestion /\ ProviderSucceeded) =>
              QuestionResponse_required \subseteq resp.keys
        /\ (req.endpoint = "health" /\ calls = 1) =>
              HealthResponse_required \subseteq resp.keys

\* C23: in every health response, status "healthy" comes with
\* llm_service_status "connected".
C23_HealthyMeansConnected ==
    (req.endpoint = "health" /\ resp.health = "healthy") => resp.llm = "connected"

\* C24: the health probe and the statistics read leave total_requests and the
\* cumulative response time unchanged; only POST /api/ask changes them.
C24_OnlyRelayCounts ==
    [][(total_requests' # total_requests
        \/ total_response_time' # total_response_time)
          => req'.endpoint = "ask"]_vars

\* a health probe that called the provider, after a relay was counted
C24_Witness ==
    /\ req.endpoint = "health"
    /\ calls = 1
    /\ total_requests >= 1
    /\ total_response_time >= 2

\* C25: while the global service instance is not set, get_llm_service raises
\* and no provider call is made: POST /api/ask with a valid question is
\* answered 500 (not 503), and GET /health is answered 200 with a status other
\* than "healthy" and an llm status other than "connected".
C25_UnsetServiceAnswers ==
    (app \in {"main", "http"} /\ ~svcSet) =>
        /\ calls = 0
        /\ (IsAsk /\ GoodQuestion) => resp.status = 500
        /\ req.endpoint = "health" =>
              /\ resp.status = 200
              /\ resp.health \notin {"healthy", "none"}
              /\ resp.llm \notin {"connected", "none"}

\* C26: in main_http.py the lifespan sets the service before any request is
\* served; a failed construction or a failed start-up probe does not abort
\* start-up; on shutdown the HTTP client is closed, once, exactly if the
\* service was constructed; nothing is handled after the shutdown.
C26_LifespanOrder ==
    /\ [](app = "http" => phase # "aborted")
    /\ []((app = "http" /\ phase = "serving") => svcSet = (instances = 1))
    /\ []((app = "http" /\ phase = "stopped") => clientClosed = (instances = 1))
    /\ []((app = "http" /\ clientClosed) => phase = "stopped")
    /\ [][~(app = "http" /\ phase = "stopped")]_vars

\* the service was constructed, a relay was counted, and the shutdown closed
\* the client
C26_Witness ==
    /\ app = "http"
    /\ phase = "stopped"
    /\ clientClosed
    /\ instances = 1
    /\ total_requests >= 1

\* the raw handler passed a question to call_groq_api
RawAsked ==
    app = "raw" /\ IsAsk /\ req.body = "object" /\ req.q.len > 0

C29_SourcesDistinct ==
    sources.kind = "list" =>
        \A i, j \in DOMAIN sources.list :
            sources.list[i] = sources.list[j] => i = j

====
